---- MODULE Spec2Model ----
(***************************************************************************)
(* A model of django-pinpayments (pinpayments/models.py): the stored rows  *)
(* of the five models, the in-memory PinTransaction instances held by      *)
(* callers, the PinTransaction.process_transaction lifecycle and the       *)
(* entity factories.  The gateway client (pinpayments/objects.py) is not   *)
(* part of the modelled sources; its replies are drawn from small sets.    *)
(***************************************************************************)
EXTENDS Integers, Sequences, FiniteSets, TLC

VARIABLES
    txn,            \* stored PinTransaction rows (at most one row, pk = 1)
    customers,      \* stored CustomerToken rows, by id; a removed row has live = FALSE
    bankAccounts,   \* stored BankAccount rows, by id
    recipients,     \* stored PinRecipient rows, by id
    transfers,      \* stored PinTransfer rows, by id
    mem,            \* mem[c]: the PinTransaction instance caller c holds
    pc,             \* pc[c]: where caller c is: none, idle, saved, sent
    payload,        \* payload[c]: the charge payload caller c has built
    charges,        \* the charge POSTs issued so far, in order
    crashed,        \* a caller's process died inside process_transaction
    last            \* outcome of the operation that finished last

vars == <<txn, customers, bankAccounts, recipients, transfers,
          mem, pc, payload, charges, crashed, last>>

(***************************************************************************)
(* Bounds of the model.                                                    *)
(***************************************************************************)
MaxRows == 1        \* rows the factories may create per table
MaxCharges == 2     \* charge POSTs recorded

Callers == {"c1", "c2"}
SeqCallers == {"c1"}

(***************************************************************************)
(* Values.  None is Python's None; a foreign key that is NULL is 0.        *)
(***************************************************************************)
None == "None"
NoException == ""
EmptyObj == [k \in {} |-> None]

\* Python truthiness of a nullable string field and of a nullable reference.
Truthy(v) == v /= None /\ v /= ""
TruthyRef(id) == id /= 0

Has(obj, key) == key \in DOMAIN obj
Restrict(obj, keys) == [k \in keys |-> obj[k]]

\* settings.PIN_ENVIRONMENTS and settings.PIN_DEFAULT_ENVIRONMENT
PIN_ENVIRONMENTS == {"test", "live"}
PIN_DEFAULT_ENVIRONMENT == "test"

\* Decimal values with two places: units and hundredths.
Decimal(units, cents) == [units |-> units, cents |-> cents]
ZeroDecimal == Decimal(0, 0)

CardTokens == {None, "", "card_tok"}
Environments == {"", "bogus"}
Amounts == {Decimal(19, 99)}
Now == "now"

(***************************************************************************)
(* PinTransaction: the fields of an instance, with the field defaults.     *)
(* pk = 0 is an instance that has not been stored.                         *)
(***************************************************************************)
NewTransaction(card_token, customer_token, environment, amount) ==
    [pk |-> 0,
     date |-> None,
     environment |-> environment,
     amount |-> amount,
     fees |-> ZeroDecimal,
     description |-> "order",
     processed |-> FALSE,
     succeeded |-> FALSE,
     currency |-> "AUD",
     transaction_token |-> None,
     card_token |-> card_token,
     customer_token |-> customer_token,
     pin_response |-> None,
     ip_address |-> "127.0.0.1",
     email_address |-> "buyer@example.com",
     card_address1 |-> None,
     card_address2 |-> None,
     card_city |-> None,
     card_state |-> None,
     card_postcode |-> None,
     card_country |-> None,
     card_number |-> None,
     card_type |-> None,
     pin_response_text |-> None]

NoInstance == NewTransaction(None, 0, "", ZeroDecimal)

\* The live CustomerToken ids.
LiveCustomers == {i \in 1..Len(customers) : customers[i].live}

(***************************************************************************)
(* PinTransaction.save: validation, defaulting, then the row write.  The   *)
(* result carries the exception raised (if any), the instance as save left *)
(* it and whether a row was written.                                       *)
(***************************************************************************)
SaveOutcome(exc, rec, wrote) == [exc |-> exc, rec |-> rec, wrote |-> wrote]

HasNeitherToken(rec) == ~(Truthy(rec.card_token) \/ TruthyRef(rec.customer_token))
\* Faulty variant: the both-set check is missing.
HasBothTokensUnchecked(rec) == FALSE

HasBothTokens(rec) == Truthy(rec.card_token) /\ TruthyRef(rec.customer_token)

DefaultEnvironment(rec) ==
    IF rec.environment = "" THEN [rec EXCEPT !.environment = PIN_DEFAULT_ENVIRONMENT]
    ELSE rec

DefaultDate(rec) ==
    IF rec.date = None THEN [rec EXCEPT !.date = Now] ELSE rec

\* models.Model.save: INSERT when the instance has no pk, else UPDATE of every
\* column; the customer_token column is a foreign key the database enforces.
\* (An instance that has to fetch its removed customer raises DoesNotExist in
\* the validation instead; either way the save raises and writes nothing.)
ModelSave(rec, live) ==
    IF TruthyRef(rec.customer_token) /\ rec.customer_token \notin live
    THEN SaveOutcome("IntegrityError", rec, FALSE)
    ELSE SaveOutcome(NoException, [rec EXCEPT !.pk = 1], TRUE)

\* Faulty variant: the environment is not checked against the settings.
AnyEnvironment(rec) == FALSE

\* self.environment not in settings.PIN_ENVIRONMENTS
UnknownEnvironment(rec) == rec.environment \notin PIN_ENVIRONMENTS

SaveTransaction(rec, live) ==
    IF HasNeitherToken(rec) THEN SaveOutcome("PinError", rec, FALSE)
    ELSE IF HasBothTokens(rec) THEN SaveOutcome("PinError", rec, FALSE)
    ELSE LET r1 == DefaultEnvironment(rec) IN
         IF UnknownEnvironment(r1)
         THEN SaveOutcome("PinError", r1, FALSE)
         ELSE ModelSave(DefaultDate(r1), live)

\* The stored rows after a save.
Written(out) == IF out.wrote THEN <<out.rec>> ELSE txn

(***************************************************************************)
(* The gateway client (PinEnvironment.pin_post / pin_put): one request,    *)
(* answered by a reply or by a transport exception.  A reply carries the   *)
(* raw body text and the parsed JSON; parsed = FALSE is a body that is not *)
(* JSON (the parsed component is None).                                    *)
(***************************************************************************)
Reply(raised, text, parsed, json) ==
    [raised |-> raised, text |-> text, parsed |-> parsed, json |-> json]

TransportFailure == Reply(TRUE, "", FALSE, EmptyObj)
UnparseableReply == Reply(FALSE, "<html>Bad Gateway</html>", FALSE, EmptyObj)
JsonReply(text, json) == Reply(FALSE, text, TRUE, json)

Request(method, url, body) == [method |-> method, url |-> url, body |-> body]

\* PinEnvironment(name): the environment named, the default one for an empty
\* name; PinError when the name is not configured.
ResolveEnvironment(name) ==
    LET n == IF name = "" THEN PIN_DEFAULT_ENVIRONMENT ELSE name IN
    [exc |-> IF n \in PIN_ENVIRONMENTS THEN NoException ELSE "PinError", name |-> n]

(***************************************************************************)
(* Replies of the charge endpoint.                                         *)
(***************************************************************************)
MessageLists ==
    { <<>>,
      <<[code |-> "card_invalid"]>>,
      <<[code |-> "card_invalid", message |-> "Card declined"]>> }

FullChargeError(msgs) ==
    [error |-> "card_declined",
     error_description |-> "Insufficient funds",
     messages |-> msgs,
     charge_token |-> "ch_failed"]

ChargeErrorObjs ==
    { Restrict(FullChargeError(m), {"error"} \cup K) :
        K \in SUBSET {"error_description", "messages", "charge_token"},
        m \in MessageLists }

FullCard ==
    [address_line1 |-> "1 Main St",
     address_line2 |-> "Flat 2",
     address_city |-> "Perth",
     address_state |-> "WA",
     address_postcode |-> "6000",
     address_country |-> "Australia",
     display_number |-> "XXXX-XXXX-XXXX-0000",
     scheme |-> "visa",
     name |-> "A Buyer"]

TotalFees == {500, 175}

FullCharge(fee) ==
    [token |-> "ch_ok",
     total_fees |-> fee,
     status_message |-> "Success!",
     card |-> FullCard]

Without(obj, key) == Restrict(obj, DOMAIN obj \ {key})

ChargeSuccessObjs ==
    { [response |-> FullCharge(f)] : f \in TotalFees }
    \cup { [response |-> Without(FullCharge(500), k)] : k \in {"token", "total_fees", "card"} }
    \cup { [response |-> [FullCharge(500) EXCEPT !.card = Without(FullCard, "scheme")]] }
    \cup { EmptyObj }

ChargeReplies ==
    {TransportFailure, UnparseableReply}
    \cup { JsonReply("error body", j) : j \in ChargeErrorObjs }
    \cup { JsonReply("charge body", j) : j \in ChargeSuccessObjs }

(***************************************************************************)
(* process_transaction, the interpretation of the reply.  An outcome is    *)
(* the exception raised (if any) and the instance as the code left it.     *)
(***************************************************************************)
Interpreted(exc, rec) == [exc |-> exc, rec |-> rec]

Failure(msg) == "Failure: " \o msg

\* Faulty variant: the unparseable-body branch sets no message.
GenericFailureUnset(rec) == rec

\* The unparseable-body branch.
GenericFailure(rec) == [rec EXCEPT !.pin_response = "Failure."]

\* The message of a gateway-reported error.
ErrorMessage(rec, json) ==
    IF Has(json, "messages")
    THEN IF Len(json.messages) = 0
         THEN Interpreted("IndexError", rec)
         ELSE IF Has(json.messages[1], "message")
              THEN Interpreted(NoException,
                       [rec EXCEPT !.pin_response = Failure(json.messages[1].message)])
              ELSE Interpreted(NoException, rec)
    ELSE IF Has(json, "error_description")
         THEN Interpreted(NoException,
                  [rec EXCEPT !.pin_response = Failure(json.error_description)])
         ELSE Interpreted("KeyError", rec)

\* Faulty variant: the charge token of a failed charge is not kept.
ChargeTokenDropped(json) == None

\* response_json.get('charge_token', None)
ChargeTokenOf(json) == IF Has(json, "charge_token") THEN json.charge_token ELSE None

ErrorBranch(rec, json) ==
    LET m == ErrorMessage(rec, json) IN
    IF m.exc /= NoException THEN m
    ELSE Interpreted(NoException,
             [m.rec EXCEPT !.transaction_token = ChargeTokenOf(json)])

\* Faulty variant: the fee is stored in minor units, without the division.
FeesInMinorUnits(total_fees) == Decimal(total_fees, 0)

\* total_fees / Decimal("100.00")
FeesOf(total_fees) == Decimal(total_fees \div 100, total_fees % 100)

\* The assignments of the success branch, in the order the code makes them:
\* each names the field set, whether the keys it reads are there, and the value.
Assign(field, ok, val) == [field |-> field, ok |-> ok, val |-> val]

CardAssign(field, data, key) ==
    LET ok == Has(data, "card") /\ Has(data.card, key) IN
    Assign(field, ok, IF ok THEN data.card[key] ELSE None)

SuccessAssignments(data) ==
    << Assign("succeeded", TRUE, TRUE),
       Assign("transaction_token", Has(data, "token"),
              IF Has(data, "token") THEN data.token ELSE None),
       Assign("fees", Has(data, "total_fees"),
              IF Has(data, "total_fees") THEN FeesOf(data.total_fees) ELSE ZeroDecimal),
       Assign("pin_response", Has(data, "status_message"),
              IF Has(data, "status_message") THEN data.status_message ELSE None),
       CardAssign("card_address1", data, "address_line1"),
       CardAssign("card_address2", data, "address_line2"),
       CardAssign("card_city", data, "address_city"),
       CardAssign("card_state", data, "address_state"),
       CardAssign("card_postcode", data, "address_postcode"),
       CardAssign("card_country", data, "address_country"),
       CardAssign("card_number", data, "display_number"),
       CardAssign("card_type", data, "scheme") >>

RECURSIVE ApplyAssignments(_, _)
ApplyAssignments(rec, steps) ==
    IF steps = <<>> THEN Interpreted(NoException, rec)
    ELSE IF ~Head(steps).ok THEN Interpreted("KeyError", rec)
    ELSE ApplyAssignments([rec EXCEPT ![Head(steps).field] = Head(steps).val],
                          Tail(steps))

SuccessBranch(rec, json) ==
    IF ~Has(json, "response") THEN Interpreted("KeyError", rec)
    ELSE ApplyAssignments(rec, SuccessAssignments(json.response))

\* Faulty variant: the body text is not kept.
DropResponseText(rec, reply) == rec

\* self.pin_response_text = response.text
KeepResponseText(rec, reply) == [rec EXCEPT !.pin_response_text = reply.text]

\* Faulty variant: succeeded is set before the reply is looked at.
InterpretChargeOptimistic(rec, reply) ==
    LET r0 == [KeepResponseText(rec, reply) EXCEPT !.succeeded = TRUE] IN
    IF ~reply.parsed THEN Interpreted(NoException, GenericFailure(r0))
    ELSE IF Has(reply.json, "error") THEN ErrorBranch(r0, reply.json)
    ELSE SuccessBranch(r0, reply.json)

InterpretCharge(rec, reply) ==
    LET r0 == KeepResponseText(rec, reply) IN
    IF ~reply.parsed THEN Interpreted(NoException, GenericFailure(r0))
    ELSE IF Has(reply.json, "error") THEN ErrorBranch(r0, reply.json)
    ELSE SuccessBranch(r0, reply.json)

\* Faulty variant: the amount is truncated to whole units before the scaling.
MinorUnitsOfWholeUnits(amount) == amount.units * 100

\* int(self.amount * 100)
MinorUnits(amount) == amount.units * 100 + amount.cents

\* The charge payload.
ChargePayload(rec) ==
    LET base == [email |-> rec.email_address,
                 description |-> rec.description,
                 amount |-> MinorUnits(rec.amount),
                 currency |-> rec.currency,
                 ip_address |-> rec.ip_address] IN
    IF Truthy(rec.card_token)
    THEN base @@ ("card_token" :> rec.card_token)
    ELSE base @@ ("customer_token" :> customers[rec.customer_token].token)

NoPayload == EmptyObj

(***************************************************************************)
(* The outcome of a finished operation: its name, the exception it raised  *)
(* (NoException when it returned), what it returned and the requests it    *)
(* sent to the gateway.                                                    *)
(***************************************************************************)
Outcome(op, exc, ret, reqs) == [op |-> op, exc |-> exc, ret |-> ret, reqs |-> reqs]

Init ==
    /\ txn = <<>>
    /\ customers = <<>>
    /\ bankAccounts = <<>>
    /\ recipients = <<>>
    /\ transfers = <<>>
    /\ mem = [c \in Callers |-> NoInstance]
    /\ pc = [c \in Callers |-> "none"]
    /\ payload = [c \in Callers |-> NoPayload]
    /\ charges = <<>>
    /\ crashed = FALSE
    /\ last = Outcome("init", NoException, None, <<>>)

tables == <<customers, bankAccounts, recipients, transfers>>

(***************************************************************************)
(* A caller constructs a PinTransaction instance (not yet stored).         *)
(***************************************************************************)
New(c) ==
    /\ txn = <<>>
    /\ \A d \in Callers : pc[d] = "none"
    /\ \E card_token \in CardTokens, customer_token \in {0} \cup LiveCustomers,
          environment \in Environments, amount \in Amounts :
          mem' = [mem EXCEPT ![c] =
                      NewTransaction(card_token, customer_token, environment, amount)]
    /\ pc' = [pc EXCEPT ![c] = "idle"]
    /\ UNCHANGED <<txn, tables, payload, charges, crashed, last>>

(***************************************************************************)
(* A caller fetches the stored row into a fresh instance.                  *)
(***************************************************************************)
Load(c) ==
    /\ txn /= <<>>
    /\ pc[c] \in {"none", "idle"}
    /\ mem' = [mem EXCEPT ![c] = txn[1]]
    /\ pc' = [pc EXCEPT ![c] = "idle"]
    /\ UNCHANGED <<txn, tables, payload, charges, crashed, last>>

(***************************************************************************)
(* PinTransaction.save called by a caller on the instance it holds.        *)
(***************************************************************************)
Save(c) ==
    /\ pc[c] = "idle"
    /\ LET out == SaveTransaction(mem[c], LiveCustomers) IN
         /\ mem' = [mem EXCEPT ![c] = out.rec]
         /\ txn' = Written(out)
         /\ last' = Outcome("save", out.exc, None, <<>>)
    /\ UNCHANGED <<tables, pc, payload, charges, crashed>>

(***************************************************************************)
(* process_transaction, up to the charge POST: the processed guard, the    *)
(* flag set and stored, the payload built.                                 *)
(***************************************************************************)
\* Faulty variants of the guard: one that never skips, and one that reads the
\* stored row as well as the instance.
AlreadyProcessedNever(c) == FALSE
AlreadyProcessedStored(c) == mem[c].processed \/ (txn /= <<>> /\ txn[1].processed)

AlreadyProcessed(c) == mem[c].processed

\* Faulty variant: the flag is not set before the first save.
MarkProcessedLate(rec) == rec

MarkProcessed(rec) == [rec EXCEPT !.processed = TRUE]

ProcessStart(c) ==
    /\ pc[c] = "idle"
    /\ IF AlreadyProcessed(c)
       THEN /\ last' = Outcome("process_transaction", NoException, None, <<>>)
            /\ UNCHANGED <<txn, mem, pc, payload>>
       ELSE LET out == SaveTransaction(MarkProcessed(mem[c]), LiveCustomers)
                env == ResolveEnvironment(out.rec.environment) IN
            /\ mem' = [mem EXCEPT ![c] = out.rec]
            /\ txn' = Written(out)
            /\ IF out.exc /= NoException
               THEN /\ last' = Outcome("process_transaction", out.exc, None, <<>>)
                    /\ UNCHANGED <<pc, payload>>
               ELSE IF env.exc /= NoException
               THEN /\ last' = Outcome("process_transaction", env.exc, None, <<>>)
                    /\ UNCHANGED <<pc, payload>>
               ELSE /\ payload' = [payload EXCEPT ![c] = ChargePayload(out.rec)]
                    /\ pc' = [pc EXCEPT ![c] = "saved"]
                    /\ UNCHANGED last
    /\ UNCHANGED <<tables, charges, crashed>>

(***************************************************************************)
(* process_transaction: the charge POST leaves for the gateway.            *)
(***************************************************************************)
ProcessSend(c) ==
    /\ pc[c] = "saved"
    /\ Len(charges) < MaxCharges
    /\ charges' = Append(charges, [by |-> c, pk |-> mem[c].pk,
                                   request |-> Request("POST", "/charges", payload[c])])
    /\ pc' = [pc EXCEPT ![c] = "sent"]
    /\ UNCHANGED <<txn, tables, mem, payload, crashed, last>>

(***************************************************************************)
(* process_transaction: the gateway's answer arrives (or the transport     *)
(* raises), the reply is interpreted and the final state stored.           *)
(***************************************************************************)
ProcessReply(c, reply) ==
    /\ pc[c] = "sent"
    /\   LET sent == <<Request("POST", "/charges", payload[c])>> IN
         IF reply.raised
         THEN /\ last' = Outcome("process_transaction", "TransportError", None, sent)
              /\ UNCHANGED <<txn, mem>>
         ELSE LET res == InterpretCharge(mem[c], reply) IN
              IF res.exc /= NoException
              THEN /\ mem' = [mem EXCEPT ![c] = res.rec]
                   /\ last' = Outcome("process_transaction", res.exc, None, sent)
                   /\ UNCHANGED txn
              ELSE LET out == SaveTransaction(res.rec, LiveCustomers) IN
                   /\ mem' = [mem EXCEPT ![c] = out.rec]
                   /\ txn' = Written(out)
                   /\ last' = Outcome("process_transaction", out.exc,
                                      IF out.exc = NoException
                                      THEN out.rec.pin_response ELSE None, sent)
    /\ pc' = [pc EXCEPT ![c] = "idle"]
    /\ payload' = [payload EXCEPT ![c] = NoPayload]
    /\ UNCHANGED <<tables, charges, crashed>>

ProcessFinish(c, replies) == \E reply \in replies : ProcessReply(c, reply)

(***************************************************************************)
(* The caller's process dies inside process_transaction, after the first   *)
(* save: the instance is lost, the stored row stays.                       *)
(***************************************************************************)
Crash(c) ==
    /\ pc[c] \in {"saved", "sent"}
    /\ pc' = [pc EXCEPT ![c] = "none"]
    /\ mem' = [mem EXCEPT ![c] = NoInstance]
    /\ payload' = [payload EXCEPT ![c] = NoPayload]
    /\ crashed' = TRUE
    /\ last' = Outcome("crash", NoException, None, <<>>)
    /\ UNCHANGED <<txn, tables, charges>>

(***************************************************************************)
(* The entity factories.  data = pin_post(...)[1]['response']: TypeError   *)
(* on an unparsed body, KeyError when the reply has no response object.    *)
(***************************************************************************)
ResponseOf(reply) ==
    IF ~reply.parsed THEN [exc |-> "TypeError", data |-> EmptyObj]
    ELSE IF ~Has(reply.json, "response") THEN [exc |-> "KeyError", data |-> EmptyObj]
    ELSE [exc |-> NoException, data |-> reply.json.response]

HasAll(obj, keys) == \A k \in keys : Has(obj, k)

ErrorReply ==
    JsonReply("error body",
              [error |-> "invalid_resource", error_description |-> "Invalid request"])

Users == {[id |-> 1, email |-> "user@example.com"]}

(***************************************************************************)
(* CustomerToken                                                           *)
(***************************************************************************)
CustomerCard == [display_number |-> "XXXX-XXXX-XXXX-0000", scheme |-> "master",
                 name |-> "A Customer"]
FullCustomer == [token |-> "cus_tok", email |-> "user@example.com", card |-> CustomerCard]

CustomerReplies ==
    {TransportFailure, UnparseableReply, ErrorReply}
    \cup { JsonReply("customer body", [response |-> d]) :
             d \in {FullCustomer, Without(FullCustomer, "token"),
                    [FullCustomer EXCEPT !.card = Without(CustomerCard, "name")]} }

\* The card keys create_from_card_token and update_card read.
HasCardKeys(data) ==
    Has(data, "card") /\ HasAll(data.card, {"display_number", "scheme", "name"})

\* CustomerToken.save: the environment defaults.
SaveCustomer(row) ==
    IF row.environment = "" THEN [row EXCEPT !.environment = PIN_DEFAULT_ENVIRONMENT]
    ELSE row

CustomerRow(user, environment, data) ==
    [user |-> user.id,
     token |-> data.token,
     environment |-> environment,
     active |-> TRUE,
     card_number |-> data.card.display_number,
     card_type |-> data.card.scheme,
     card_name |-> data.card.name,
     live |-> TRUE]

CreateFromCardToken ==
    /\ Len(customers) < MaxRows
    /\ \E card_token \in {"card_tok"}, user \in Users, environment \in {"", "bogus"},
          reply \in CustomerReplies :
         LET env == ResolveEnvironment(environment)
             sent == <<Request("POST", "/customers",
                               [email |-> user.email, card_token |-> card_token])>>
             got == ResponseOf(reply)
             op == "create_from_card_token" IN
         IF env.exc /= NoException
         THEN /\ last' = Outcome(op, env.exc, None, <<>>)
              /\ UNCHANGED customers
         ELSE IF reply.raised
         THEN /\ last' = Outcome(op, "TransportError", None, sent)
              /\ UNCHANGED customers
         ELSE IF got.exc /= NoException
         THEN /\ last' = Outcome(op, got.exc, None, sent)
              /\ UNCHANGED customers
         ELSE IF ~(Has(got.data, "token") /\ HasCardKeys(got.data))
         THEN /\ last' = Outcome(op, "KeyError", None, sent)
              /\ UNCHANGED customers
         ELSE /\ customers' = Append(customers,
                                  SaveCustomer(CustomerRow(user, environment, got.data)))
              /\ last' = Outcome(op, NoException, "customer", sent)
    /\ UNCHANGED <<txn, bankAccounts, recipients, transfers,
                   mem, pc, payload, charges, crashed>>

\* "/customers/{1}".format(self.token): the replacement field names the
\* positional argument of that index, counted from 0.
CustomerUrlField == 1

StrFormat(prefix, field, args) ==
    IF field < Len(args)
    THEN [exc |-> NoException, str |-> prefix \o args[field + 1]]
    ELSE [exc |-> "IndexError", str |-> ""]

CustomerUrl(token) == StrFormat("/customers/", CustomerUrlField, <<token>>)

UpdateCardReply(i, card_token, reply) ==
    /\ i \in LiveCustomers
    /\   LET env == ResolveEnvironment(customers[i].environment)
             url == CustomerUrl(customers[i].token)
             sent == <<Request("PUT", url.str, [card_token |-> card_token])>>
             got == ResponseOf(reply)
             op == "update_card" IN
         IF env.exc /= NoException
         THEN /\ last' = Outcome(op, env.exc, None, <<>>)
              /\ UNCHANGED customers
         ELSE IF url.exc /= NoException
         THEN /\ last' = Outcome(op, url.exc, None, <<>>)
              /\ UNCHANGED customers
         ELSE IF reply.raised
         THEN /\ last' = Outcome(op, "TransportError", None, sent)
              /\ UNCHANGED customers
         ELSE IF got.exc /= NoException
         THEN /\ last' = Outcome(op, got.exc, None, sent)
              /\ UNCHANGED customers
         ELSE IF ~HasCardKeys(got.data)
         THEN /\ last' = Outcome(op, "KeyError", None, sent)
              /\ UNCHANGED customers
         ELSE /\ customers' = [customers EXCEPT ![i] = SaveCustomer(
                                 [@ EXCEPT !.card_number = got.data.card.display_number,
                                           !.card_type = got.data.card.scheme,
                                           !.card_name = got.data.card.name])]
              /\ last' = Outcome(op, NoException, None, sent)
    /\ UNCHANGED <<txn, bankAccounts, recipients, transfers,
                   mem, pc, payload, charges, crashed>>

UpdateCard(i) ==
    \E card_token \in {"card_new"}, reply \in CustomerReplies :
        UpdateCardReply(i, card_token, reply)

(***************************************************************************)
(* A CustomerToken row is removed: the customer_token of the transactions  *)
(* that reference it is set to NULL.  Instances in memory keep theirs.     *)
(***************************************************************************)
SetNull(row, i) == IF row.customer_token = i THEN [row EXCEPT !.customer_token = 0] ELSE row

DeleteCustomer(i) ==
    /\ i \in LiveCustomers
    /\ customers' = [customers EXCEPT ![i].live = FALSE]
    /\ txn' = [k \in DOMAIN txn |-> SetNull(txn[k], i)]
    /\ last' = Outcome("delete_customer", NoException, None, <<>>)
    /\ UNCHANGED <<bankAccounts, recipients, transfers,
                   mem, pc, payload, charges, crashed>>

(***************************************************************************)
(* PinRecipient.create_with_bank_account                                   *)
(***************************************************************************)
FullBankAccount ==
    [bank_name |-> "Test Bank", branch |-> "Main", bsb |-> "123456",
     name |-> "Account Holder", number |-> "987654321", token |-> "ba_tok"]
FullRecipient ==
    [token |-> "rp_tok", email |-> "payee@example.com", name |-> "Payee",
     bank_account |-> FullBankAccount]

RecipientReplies ==
    {TransportFailure, UnparseableReply, ErrorReply}
    \cup { JsonReply("recipient body", [response |-> d]) :
             d \in {FullRecipient,
                    Without(FullRecipient, "token"),
                    Without(FullRecipient, "name"),
                    Without(FullRecipient, "bank_account"),
                    [FullRecipient EXCEPT !.bank_account = Without(FullBankAccount, "branch")]} }

HasBankAccountKeys(data) ==
    Has(data, "bank_account")
    /\ HasAll(data.bank_account, {"bank_name", "branch", "bsb", "name", "number", "token"})

BankAccountRow(data, environment) ==
    [bank_name |-> data.bank_account.bank_name,
     branch |-> data.bank_account.branch,
     bsb |-> data.bank_account.bsb,
     name |-> data.bank_account.name,
     number |-> data.bank_account.number,
     token |-> data.bank_account.token,
     environment |-> environment]

HasRecipientKeys(data) == HasAll(data, {"token", "email", "name"})

\* Faulty variant: the recipient row does not reference the bank account row.
RecipientRowUnlinked(data, bank_account, environment) ==
    [token |-> data.token,
     email |-> data.email,
     name |-> data.name,
     bank_account |-> 0,
     environment |-> environment]

RecipientRow(data, bank_account, environment) ==
    [token |-> data.token,
     email |-> data.email,
     name |-> data.name,
     bank_account |-> bank_account,
     environment |-> environment]

CreateWithBankAccountReply(reply) ==
    /\ Len(bankAccounts) < MaxRows
    /\ Len(recipients) < MaxRows
    /\  LET env == ResolveEnvironment("")
             sent == <<Request("POST", "/recipients",
                               [email |-> "payee@example.com", name |-> "Payee",
                                bank_account_name |-> "Account Holder",
                                bank_account_bsb |-> "123456",
                                bank_account_number |-> "987654321"])>>
             got == ResponseOf(reply)
             op == "create_with_bank_account" IN
         IF env.exc /= NoException
         THEN /\ last' = Outcome(op, env.exc, None, <<>>)
              /\ UNCHANGED <<bankAccounts, recipients>>
         ELSE IF reply.raised
         THEN /\ last' = Outcome(op, "TransportError", None, sent)
              /\ UNCHANGED <<bankAccounts, recipients>>
         ELSE IF got.exc /= NoException
         THEN /\ last' = Outcome(op, got.exc, None, sent)
              /\ UNCHANGED <<bankAccounts, recipients>>
         ELSE IF ~HasBankAccountKeys(got.data)
         THEN /\ last' = Outcome(op, "KeyError", None, sent)
              /\ UNCHANGED <<bankAccounts, recipients>>
         ELSE /\ bankAccounts' = Append(bankAccounts, BankAccountRow(got.data, env.name))
              /\ IF ~HasRecipientKeys(got.data)
                 THEN /\ last' = Outcome(op, "KeyError", None, sent)
                      /\ UNCHANGED recipients
                 ELSE /\ recipients' = Append(recipients,
                             RecipientRow(got.data, Len(bankAccounts) + 1, env.name))
                      /\ last' = Outcome(op, NoException, "recipient", sent)
    /\ UNCHANGED <<txn, customers, transfers, mem, pc, payload, charges, crashed>>

CreateWithBankAccount == \E reply \in RecipientReplies : CreateWithBankAccountReply(reply)

(***************************************************************************)
(* PinTransfer.send_new                                                    *)
(***************************************************************************)
FullTransfer ==
    [token |-> "tfer_tok", status |-> "succeeded", currency |-> "AUD",
     description |-> "Payout", amount |-> 1000]

TransferReplies ==
    {TransportFailure, UnparseableReply, ErrorReply}
    \cup { JsonReply("transfer body", [response |-> d]) :
             d \in {FullTransfer, Without(FullTransfer, "status")} }

HasTransferKeys(data) ==
    HasAll(data, {"token", "status", "currency", "description", "amount"})

TransferRow(data, recipient, text) ==
    [transfer_token |-> data.token,
     status |-> data.status,
     currency |-> data.currency,
     description |-> data.description,
     amount |-> data.amount,
     recipient |-> recipient,
     pin_response_text |-> text]

SendNew(r) ==
    /\ r \in 1..Len(recipients)
    /\ Len(transfers) < MaxRows
    /\ \E reply \in TransferReplies :
         LET env == ResolveEnvironment("")
             sent == <<Request("POST", "/transfers",
                               [amount |-> 1000, description |-> "Payout",
                                recipient |-> recipients[r].token, currency |-> "AUD"])>>
             got == ResponseOf(reply)
             op == "send_new" IN
         IF env.exc /= NoException
         THEN /\ last' = Outcome(op, env.exc, None, <<>>)
              /\ UNCHANGED transfers
         ELSE IF reply.raised
         THEN /\ last' = Outcome(op, "TransportError", None, sent)
              /\ UNCHANGED transfers
         ELSE IF got.exc /= NoException
         THEN /\ last' = Outcome(op, got.exc, None, sent)
              /\ UNCHANGED transfers
         ELSE IF ~HasTransferKeys(got.data)
         THEN /\ last' = Outcome(op, "KeyError", None, sent)
              /\ UNCHANGED transfers
         ELSE /\ transfers' = Append(transfers, TransferRow(got.data, r, reply.text))
              /\ last' = Outcome(op, NoException, "transfer", sent)
    /\ UNCHANGED <<txn, customers, bankAccounts, recipients,
                   mem, pc, payload, charges, crashed>>

(***************************************************************************)
(* The specifications.  Spec is the program as it is meant to be used: one *)
(* caller, blocking calls, every operation, every reply.  SpecConcurrent   *)
(* has two callers working on the same stored transaction, their steps and *)
(* the removal of customers interleaved, with one reply of each kind.      *)
(***************************************************************************)
Step(c, replies) ==
    \/ New(c)
    \/ Load(c)
    \/ Save(c)
    \/ ProcessStart(c)
    \/ ProcessSend(c)
    \/ ProcessFinish(c, replies)
    \/ Crash(c)

\* Calls block: with one caller, no other operation runs inside a call.
Quiescent == \A c \in Callers : pc[c] \in {"none", "idle"}

Factories ==
    \/ Quiescent /\ CreateFromCardToken
    \/ Quiescent /\ \E i \in 1..MaxRows : UpdateCard(i)
    \/ Quiescent /\ \E i \in 1..MaxRows : DeleteCustomer(i)
    \/ Quiescent /\ CreateWithBankAccount
    \/ Quiescent /\ \E r \in 1..MaxRows : SendNew(r)

Next == (\E c \in SeqCallers : Step(c, ChargeReplies)) \/ Factories

Spec == Init /\ [][Next]_vars

ConcurrentReplies ==
    { TransportFailure,
      UnparseableReply,
      JsonReply("error body", Restrict(FullChargeError(<<>>), {"error", "error_description"})),
      JsonReply("charge body", [response |-> FullCharge(500)]) }

NextConcurrent ==
    \/ \E c \in Callers : Step(c, ConcurrentReplies)
    \/ CreateFromCardToken
    \/ \E i \in 1..MaxRows : DeleteCustomer(i)

SpecConcurrent == Init /\ [][NextConcurrent]_vars

(***************************************************************************)
(* Properties.                                                             *)
(***************************************************************************)
Stored == txn /= <<>>
Row == txn[1]

\* The outcome of a process_transaction call that was a no-op.
NoOpOutcome == Outcome("process_transaction", NoException, None, <<>>)

ExactlyOneToken(rec) == Truthy(rec.card_token) /= TruthyRef(rec.customer_token)

ChargeErrorReplies == { JsonReply("error body", j) : j \in ChargeErrorObjs }

\* C1: process_transaction called on an instance whose processed flag is set
\* returns None, sends nothing and changes neither the instance nor the stored
\* row; a single caller working on one record therefore sends at most one
\* charge POST.
C1_IdempotentWhenProcessed ==
    /\ [][\A c \in Callers :
            (ProcessStart(c) /\ mem[c].processed) =>
                /\ last' = NoOpOutcome
                /\ UNCHANGED <<mem, txn, charges, pc, payload>>]_vars
    /\ [](Len(charges) <= 1)

C1_Witness ==
    /\ last = NoOpOutcome
    /\ pc["c1"] = "idle"
    /\ mem["c1"].processed
    /\ Stored /\ Row.processed
    /\ Len(charges) = 1

\* C2: the stored row has processed = TRUE from before the charge POST leaves
\* until the end, so that after a crash at any point after that write a reload
\* and a new call send nothing: no second charge POST is ever issued.
C2_ProcessedStoredBeforePost ==
    /\ \A c \in Callers : pc[c] \in {"saved", "sent"} => (Stored /\ Row.processed)
    /\ charges /= <<>> => (Stored /\ Row.processed)
    /\ crashed => Len(charges) <= 1

C2_Witness ==
    /\ crashed
    /\ Len(charges) = 1
    /\ last = NoOpOutcome
    /\ pc["c1"] = "idle"
    /\ mem["c1"].processed

\* C3: a save (direct, or the first save of process_transaction) of an instance
\* with neither or both of card_token and customer_token raises PinError and
\* writes no row; every row a save writes has exactly one of the two set.
C3_SaveNeedsExactlyOneToken ==
    [][/\ \A c \in Callers :
            ((Save(c) \/ (ProcessStart(c) /\ ~mem[c].processed))
               /\ ~ExactlyOneToken(mem[c])) =>
                (last'.exc = "PinError" /\ txn' = txn)
       /\ (txn' /= txn /\ customers' = customers) => ExactlyOneToken(txn'[1])]_vars

C3_Witness ==
    /\ last = Outcome("save", "PinError", None, <<>>)
    /\ Truthy(mem["c1"].card_token) /\ TruthyRef(mem["c1"].customer_token)
    /\ ~Stored

\* C4: the processed guard reads only the caller's instance: a caller whose
\* instance says processed = FALSE passes the guard and goes on to the charge
\* POST although the stored row is already processed = TRUE, so two callers
\* holding copies of one row can both send the charge.
C4_GuardIgnoresStoredFlag ==
    [][\A c \in Callers :
          (ProcessStart(c) /\ ~mem[c].processed /\ Stored /\ Row.processed
             /\ SaveTransaction(MarkProcessed(mem[c]), LiveCustomers).exc = NoException) =>
              pc'[c] = "saved"]_vars

\* Both callers have passed the guard and both charge POSTs are out.
C4_Witness ==
    /\ pc["c1"] = "sent" /\ pc["c2"] = "sent"
    /\ Len(charges) = 2
    /\ charges[1].by /= charges[2].by
    /\ charges[1].pk = charges[2].pk
    /\ charges[1].request = charges[2].request

\* C5: when the charge POST raises a transport exception the call raises it,
\* the stored row is left processed = TRUE, succeeded = FALSE with pin_response
\* and pin_response_text unset, and no later call on a record whose stored row
\* is processed gets past the guard.
C5_TransportErrorPropagates ==
    [][\A c \in Callers :
          /\ ProcessReply(c, TransportFailure) =>
                /\ last'.exc = "TransportError"
                /\ Stored' /\ Row'.processed /\ ~Row'.succeeded
                /\ Row'.pin_response = None /\ Row'.pin_response_text = None
                /\ mem'[c].processed
          /\ (ProcessStart(c) /\ Stored /\ Row.processed) =>
                (pc'[c] = "idle" /\ charges' = charges)]_vars

C5_Witness ==
    /\ last.op = "process_transaction" /\ last.exc = "TransportError"
    /\ Stored /\ Row.processed /\ ~Row.succeeded
    /\ Row.pin_response_text = None
    /\ Len(charges) = 1

\* C6: for every parsed reply with a top-level error key, process_transaction
\* returns without raising, leaves succeeded = FALSE and stores the final state
\* with the raw response text.
C6_GatewayErrorNeverRaises ==
    [][\A c \in Callers : \A reply \in ChargeErrorReplies :
          ProcessReply(c, reply) =>
              /\ last'.exc = NoException
              /\ ~Row'.succeeded
              /\ Row'.pin_response_text = reply.text]_vars

\* The message of a gateway error as the documentation describes it.
ExpectedErrorMessage(json) ==
    IF Has(json, "messages") /\ Has(json.messages[1], "message")
    THEN Failure(json.messages[1].message)
    ELSE Failure(json.error_description)

\* C7: for a gateway error whose messages array is absent or non-empty, the
\* pin_response stored and returned is "Failure: " and messages[0].message when
\* the first message has one, else "Failure: " and error_description.
C7_ErrorMessageFallback ==
    [][\A c \in Callers : \A reply \in ChargeErrorReplies :
          (/\ ProcessReply(c, reply)
           /\ Has(reply.json, "error_description")
           /\ Has(reply.json, "messages") => reply.json.messages /= <<>>) =>
              /\ Row'.pin_response = ExpectedErrorMessage(reply.json)
              /\ last'.ret = ExpectedErrorMessage(reply.json)]_vars

\* A call of one of the three factories.
FactoryCall ==
    \/ CreateFromCardToken
    \/ CreateWithBankAccount
    \/ \E r \in 1..MaxRows : SendNew(r)

\* C8: a factory call that fails (the gateway call raises, the body is not
\* parsed or is an error, or a key the factory reads is missing) has written
\* no row of any table.
C8_FailedFactoryWritesNothing ==
    [][(FactoryCall /\ last'.exc /= NoException) => UNCHANGED tables]_vars

\* The gateway's success reply to a customer request.
SuccessCustomerReply == JsonReply("customer body", [response |-> FullCustomer])

\* C9: update_card, answered by a success reply, has sent one PUT to
\* /customers/<the record's token>, has stored the reply's card display_number,
\* scheme and name on the customer and has not raised.
C9_UpdateCardStoresCard ==
    [][\A i \in 1..MaxRows :
          UpdateCardReply(i, "card_new", SuccessCustomerReply) =>
              /\ last'.exc = NoException
              /\ Len(last'.reqs) = 1
              /\ last'.reqs[1].method = "PUT"
              /\ last'.reqs[1].url = "/customers/" \o customers[i].token
              /\ customers'[i].card_number = CustomerCard.display_number
              /\ customers'[i].card_type = CustomerCard.scheme
              /\ customers'[i].card_name = CustomerCard.name]_vars

\* C10: after an unparseable reply, process_transaction ends with the stored
\* row having pin_response = "Failure.", succeeded = FALSE, processed = TRUE and
\* the raw body in pin_response_text.
C10_UnparseableBody ==
    [][\A c \in Callers :
          ProcessReply(c, UnparseableReply) =>
              /\ last'.exc = NoException
              /\ Stored'
              /\ Row'.pin_response = "Failure."
              /\ ~Row'.succeeded
              /\ Row'.processed
              /\ Row'.pin_response_text = UnparseableReply.text]_vars

C10_Witness ==
    /\ last.op = "process_transaction" /\ last.exc = NoException
    /\ last.ret = "Failure."
    /\ Stored /\ Row.pin_response = "Failure."
    /\ Row.pin_response_text = UnparseableReply.text
    /\ Row.processed /\ ~Row.succeeded

\* C11: for a gateway error with an error_description D and no messages array,
\* process_transaction returns "Failure: D" and ends with the stored row having
\* pin_response = "Failure: D", succeeded = FALSE and transaction_token equal
\* to the reply's charge_token when the reply has one.
C11_ErrorDescriptionOnly ==
    [][\A c \in Callers : \A reply \in ChargeErrorReplies :
          (/\ ProcessReply(c, reply)
           /\ Has(reply.json, "error_description")
           /\ ~Has(reply.json, "messages")) =>
              /\ last'.exc = NoException
              /\ last'.ret = "Failure: " \o reply.json.error_description
              /\ Stored'
              /\ Row'.pin_response = "Failure: " \o reply.json.error_description
              /\ ~Row'.succeeded
              /\ Has(reply.json, "charge_token") =>
                    Row'.transaction_token = reply.json.charge_token]_vars

C11_Witness ==
    /\ last.op = "process_transaction" /\ last.exc = NoException
    /\ last.ret = "Failure: Insufficient funds"
    /\ Stored /\ Row.pin_response = "Failure: Insufficient funds"
    /\ ~Row.succeeded
    /\ Row.transaction_token = "ch_failed"

\* The well-formed success replies: no error key, and a response object with
\* the token, the fee, the status message and a complete card object.
ChargeSuccessReplies ==
    { JsonReply("charge body", [response |-> FullCharge(f)]) : f \in TotalFees }

\* C12: for a reply without an error key, process_transaction ends with the
\* stored row having succeeded = TRUE, transaction_token = the response token,
\* pin_response = the response status message, the card fields copied from the
\* response's card object, and fees = the fee in minor units divided by 100
\* (500 gives 5.00).
C12_SuccessStored ==
    [][\A c \in Callers : \A reply \in ChargeSuccessReplies :
          ProcessReply(c, reply) =>
              LET data == reply.json.response IN
              /\ last'.exc = NoException
              /\ last'.ret = data.status_message
              /\ Stored'
              /\ Row'.succeeded
              /\ Row'.processed
              /\ Row'.transaction_token = data.token
              /\ Row'.pin_response = data.status_message
              /\ Row'.card_address1 = data.card.address_line1
              /\ Row'.card_address2 = data.card.address_line2
              /\ Row'.card_city = data.card.address_city
              /\ Row'.card_state = data.card.address_state
              /\ Row'.card_postcode = data.card.address_postcode
              /\ Row'.card_country = data.card.address_country
              /\ Row'.card_number = data.card.display_number
              /\ Row'.card_type = data.card.scheme
              /\ Row'.fees.units * 100 + Row'.fees.cents = data.total_fees
              /\ Row'.fees.cents \in 0..99
              /\ data.total_fees = 500 => Row'.fees = Decimal(5, 0)]_vars

C12_Witness ==
    /\ last.op = "process_transaction" /\ last.exc = NoException
    /\ last.ret = "Success!"
    /\ Stored /\ Row.succeeded /\ Row.transaction_token = "ch_ok"
    /\ Row.card_type = "visa" /\ Row.card_number = "XXXX-XXXX-XXXX-0000"
    /\ Row.fees = Decimal(5, 0)

\* The well-formed success reply of /recipients.
SuccessRecipientReply == JsonReply("recipient body", [response |-> FullRecipient])

\* C13: create_with_bank_account, given a well-formed success reply, makes one
\* POST to /recipients and adds exactly one BankAccount row and exactly one
\* PinRecipient row; the recipient row references the BankAccount row just
\* created, and both rows carry the resolved environment name.
C13_RecipientWithBankAccount ==
    [][CreateWithBankAccountReply(SuccessRecipientReply) =>
          LET a == Len(bankAccounts) + 1
              r == Len(recipients) + 1 IN
          /\ last'.exc = NoException
          /\ Len(last'.reqs) = 1
          /\ last'.reqs[1].method = "POST"
          /\ last'.reqs[1].url = "/recipients"
          /\ Len(bankAccounts') = a
          /\ SubSeq(bankAccounts', 1, a - 1) = bankAccounts
          /\ Len(recipients') = r
          /\ SubSeq(recipients', 1, r - 1) = recipients
          /\ bankAccounts'[a].token = FullBankAccount.token
          /\ recipients'[r].token = FullRecipient.token
          /\ recipients'[r].bank_account = a
          /\ bankAccounts'[a].environment = ResolveEnvironment("").name
          /\ recipients'[r].environment = ResolveEnvironment("").name
          /\ recipients'[r].environment = PIN_DEFAULT_ENVIRONMENT]_vars

C13_Witness ==
    /\ last.op = "create_with_bank_account" /\ last.exc = NoException
    /\ Len(last.reqs) = 1
    /\ Len(bankAccounts) = 1 /\ Len(recipients) = 1
    /\ recipients[1].bank_account = 1
    /\ bankAccounts[1].token = "ba_tok"
    /\ recipients[1].environment = "test" /\ bankAccounts[1].environment = "test"

\* An instance save() rejects: neither or both of the tokens, or an environment
\* that is not configured (an empty one stands for the default).
InvalidTransaction(rec) ==
    \/ ~ExactlyOneToken(rec)
    \/ rec.environment \notin PIN_ENVIRONMENTS \cup {""}

\* C14: process_transaction on an invalid PinTransaction (environment not
\* configured, or neither or both of card_token and customer_token) raises
\* PinError before any request is made and without writing the stored row,
\* whose processed flag stays false.
C14_ValidationFailsFast ==
    [][\A c \in Callers :
          (ProcessStart(c) /\ ~mem[c].processed /\ InvalidTransaction(mem[c])) =>
              /\ last'.op = "process_transaction"
              /\ last'.exc = "PinError"
              /\ last'.reqs = <<>>
              /\ charges' = charges
              /\ pc'[c] = "idle"
              /\ txn' = txn
              /\ Stored' => ~Row'.processed]_vars

C14_Witness ==
    /\ last.op = "process_transaction" /\ last.exc = "PinError"
    /\ charges = <<>>
    /\ Stored /\ ~Row.processed /\ HasNeitherToken(Row)
    /\ mem["c1"].pk = 1

\* The token keys of a charge payload.
TokenKeys(body) == DOMAIN body \cap {"card_token", "customer_token"}

\* C15: every charge payload carries exactly one of the keys card_token and
\* customer_token: the record's card_token when that is set, otherwise the
\* token of the linked CustomerToken; and its amount is the record's decimal
\* amount times 100, as an integer number of minor units.
C15_ChargePayload ==
    /\ \A c \in Callers :
          pc[c] \in {"saved", "sent"} =>
              LET body == payload[c]
                  rec == mem[c] IN
              /\ Cardinality(TokenKeys(body)) = 1
              /\ rec.card_token \notin {None, ""} =>
                    /\ TokenKeys(body) = {"card_token"}
                    /\ body.card_token = rec.card_token
              /\ rec.card_token \in {None, ""} =>
                    /\ TokenKeys(body) = {"customer_token"}
                    /\ rec.customer_token \in 1..Len(customers)
                    /\ body.customer_token = customers[rec.customer_token].token
              /\ body.amount = rec.amount.units * 100 + rec.amount.cents
              /\ rec.amount = Decimal(19, 99) => body.amount = 1999
    /\ \A i \in 1..Len(charges) :
          /\ Cardinality(TokenKeys(charges[i].request.body)) = 1
          /\ charges[i].request.body = payload[charges[i].by] \/ pc[charges[i].by] /= "sent"

C15_Witness ==
    /\ pc["c1"] = "sent"
    /\ Len(charges) = 1
    /\ mem["c1"].card_token \in {None, ""}
    /\ charges[1].request.body = payload["c1"]
    /\ TokenKeys(payload["c1"]) = {"customer_token"}
    /\ payload["c1"].customer_token = "cus_tok"
    /\ payload["c1"].amount = 1999

\* The fields the failure outcomes may write, and the fields of the outcome of
\* a charge.
FailureFields == {"processed", "pin_response_text", "pin_response", "transaction_token"}
ChargeOutcomeFields ==
    {"succeeded", "fees", "card_address1", "card_address2", "card_city",
     "card_state", "card_postcode", "card_country", "card_number", "card_type"}

\* rec and old agree on the fields named.
SameOn(fields, rec, old) == \A f \in fields : rec[f] = old[f]

C17_StoredRowHasOneToken == Stored => ExactlyOneToken(Row)

\* C18: process_transaction returns None without a request only when the
\* stored row is already processed: after a call whose first save raised a
\* validation error the instance's processed flag agrees with the stored one
\* (false, or no row), so the next call on the instance is not skipped.
C18_SkipOnlyWhenStoredProcessed ==
    /\ last = NoOpOutcome => (Stored /\ Row.processed)
    /\ (last.op = "process_transaction" /\ last.exc = "PinError") =>
          \A c \in SeqCallers : mem[c].processed = (Stored /\ Row.processed)

\* A stored state of the lifecycle: a succeeded row is processed and has its
\* transaction token and the response text.
SucceededIsComplete(rec) ==
    rec.succeeded =>
        /\ rec.processed
        /\ rec.transaction_token /= None
        /\ rec.pin_response_text /= None

\* C19: a record created with the defaults is neither processed nor succeeded;
\* every row process_transaction stores has succeeded = TRUE only together
\* with processed = TRUE, a transaction_token and a pin_response_text; and
\* when process_transaction returns a value other than None, the stored row is
\* in the terminal state: processed = TRUE with the response text stored.
C19_SucceededIsComplete ==
    [][\A c \in Callers :
          /\ New(c) => (~mem'[c].processed /\ ~mem'[c].succeeded)
          /\ (/\ ProcessStart(c) \/ \E reply \in ChargeReplies : ProcessReply(c, reply)
              /\ txn' /= txn) =>
                 (Stored' /\ SucceededIsComplete(Row'))
          /\ \A reply \in ChargeReplies :
                (/\ ProcessReply(c, reply)
                 /\ last'.exc = NoException
                 /\ last'.ret /= None) =>
                    /\ Stored'
                    /\ Row'.processed
                    /\ Row'.pin_response_text = reply.text
                    /\ Row'.pin_response = last'.ret]_vars

C19_Witness ==
    /\ last.op = "process_transaction" /\ last.exc = NoException
    /\ last.ret /= None
    /\ Stored /\ Row.succeeded /\ Row.processed
    /\ Row.transaction_token /= None
    /\ Row.pin_response_text = "charge body"
    /\ mem["c1"] = Row

====
